---- MODULE Spec2Model ----
(***************************************************************************)
(* Model of split_cl.py: GetFilesSplitByOwners (the partition of the       *)
(* changed files by OWNERS directory) and SplitCl / UploadCl (the          *)
(* per-directory publish workflow).                                        *)
(*                                                                         *)
(* A path string is modelled as the sequence of its components: "a/b/x"    *)
(* is <<"a", "b", "x">>, "." is <<".">> and the empty string is << >>.     *)
(***************************************************************************)
EXTENDS Integers, Sequences, FiniteSets, TLC

VARIABLES
  \* GetFilesSplitByOwners
  files,                  \* the (action, path) list: the status diff
  owners_dirs,            \* filesystem: the directories that hold an OWNERS file
  max_depth,              \* the max_depth argument
  idx,                    \* position of the for loop in files
  dir_with_owners,        \* local of GetFilesSplitByOwners
  files_split_by_owners,  \* the insertion-ordered dict, as a sequence of items
  pc,                     \* position of the thread of control
  \* SplitCl and UploadCl
  dry_run,                \* argument of SplitCl
  cq_dry_run,             \* argument of SplitCl
  comment,                \* TRUE when a non-empty comment was read
  description,            \* the description read, as its sequence of tokens
  branches,               \* repository: the names git.branches() returns
  current_branch,         \* repository: what git.current_branch() returns
  refactor_branch,        \* local of SplitCl
  cl_index,               \* loop variable of SplitCl, 0 before the loop
  ret,                    \* local of UploadCl: what cmd_upload last returned
  result,                 \* how SplitCl ended
  log,                    \* what this run did to the repository and printed
  rerun,                  \* TRUE in the second run of the command
  prev                    \* the first run, as the second run finds it

splitVars == <<files, owners_dirs, max_depth, idx, dir_with_owners,
               files_split_by_owners>>
inputVars == <<files, owners_dirs, max_depth>>
flagVars == <<dry_run, cq_dry_run, comment, description>>
repoVars == <<branches, current_branch>>
runVars == <<dry_run, cq_dry_run, comment, description, branches,
             current_branch, refactor_branch, cl_index, ret, result, log,
             rerun, prev>>
vars == <<files, owners_dirs, max_depth, idx, dir_with_owners,
          files_split_by_owners, pc, dry_run, cq_dry_run, comment,
          description, branches, current_branch, refactor_branch, cl_index,
          ret, result, log, rerun, prev>>

\* ---------------------------------------------------------------- bounds
MaxFiles == 3
MaxDepthArg == 2

\* ---------------------------------------------------------------- inputs
Root == << >>
Dot == <<".">>
Actions == {"M", "D"}
Paths == { <<"r.txt">>,
           <<"a", "b", "x.txt">>,
           <<"a", "b", "z.txt">>,
           <<"a", "c", "y.txt">> }
Dirs == { Root, <<"a">>, <<"a", "b">>, <<"a", "c">> }
Entries == Actions \X Paths

RECURSIVE ListsUpTo(_, _)
ListsUpTo(S, n) ==
  IF n = 0 THEN { << >> }
  ELSE LET shorter == ListsUpTo(S, n - 1)
       IN shorter \cup { Append(l, e) : l \in { s \in shorter : Len(s) = n - 1 }, e \in S }

\* ------------------------------------------------------------ repository
\* A branch name is the sequence of the pieces it is concatenated from.
OriginalBranch == <<"feature">>
NoBranch == << >>
NoRun == [result |-> "none", looped |-> FALSE, dry_run |-> FALSE,
          branches |-> {}, created |-> {}]

\* Descriptions, as token sequences.
PlainDescription == <<"Fix crash">>
BugDescription == <<"Fix crash", "\n", "\n", "Bug:", " ", "chromium:", "123">>
Descriptions == { PlainDescription, BugDescription }

\* What the user may type at a prompt.
Answers == { "y", "Y", "n", "" }

\* ---------------------------------------------------------------- os.path
Min(a, b) == IF a < b THEN a ELSE b

\* os.path.dirname: everything before the last separator; dirname("") = "",
\* dirname("a") = "" and dirname(".") = "".
Dirname(p) == IF Len(p) = 0 THEN << >> ELSE SubSeq(p, 1, Len(p) - 1)

\* os.path.normpath on a relative path: drops empty and "." components; the
\* empty result is ".".
Normpath(p) ==
  LET kept == SelectSeq(p, LAMBDA c : c # "." /\ c # "")
  IN IF kept = << >> THEN Dot ELSE kept

\* str.split(os.path.sep): the empty string splits into one empty component.
Split(p) == IF p = << >> THEN <<"">> ELSE p

\* os.path.join(*parts): empty parts contribute nothing.
Join(parts) == SelectSeq(parts, LAMBDA c : c # "")

\* A slice that keeps one component too many.
TruncateOneMore(d, depth) ==
  Join(SubSeq(Split(d), 1, Min(depth + 1, Len(Split(d)))))

\* dir_with_owners.split(os.path.sep)[:max_depth], joined again.
Truncate(d, depth) == Join(SubSeq(Split(d), 1, Min(depth, Len(Split(d)))))

\* The directory a path string names, relative to the repository root: "."
\* and "" both name the root.
Resolve(p) == SelectSeq(p, LAMBDA c : c # "." /\ c # "")

\* os.path.isfile(os.path.join(d, 'OWNERS')): the relative path is looked up
\* from the working directory, which is the repository root.
HasOwnersFile(d) == Resolve(d) \in owners_dirs

\* dir_with_owners in files_split_by_owners
Keys(m) == { m[i].dir : i \in 1..Len(m) }
IndexOf(m, d) == CHOOSE i \in 1..Len(m) : m[i].dir = d

\* An assignment in place of setdefault: the entry replaces the list.
SetDefaultOverwrite(m, d, entry) ==
  IF d \in Keys(m)
  THEN [m EXCEPT ![IndexOf(m, d)].files = <<entry>>]
  ELSE Append(m, [dir |-> d, files |-> <<entry>>])

\* files_split_by_owners.setdefault(d, []).append(entry)
SetDefaultAppend(m, d, entry) ==
  IF d \in Keys(m)
  THEN [m EXCEPT ![IndexOf(m, d)].files = Append(@, entry)]
  ELSE Append(m, [dir |-> d, files |-> <<entry>>])

\* A walk that starts from the parent of the file's directory.
StartDirOfParent(path, depth) ==
  LET d == Dirname(Normpath(Dirname(path)))
  IN IF depth >= 1 THEN Truncate(d, depth) ELSE d

\* The starting directory of a file's upward walk.
StartDir(path, depth) ==
  LET d == Normpath(Dirname(path))
  IN IF depth >= 1 THEN Truncate(d, depth) ELSE d

\* ------------------------------------------------- GetFilesSplitByOwners
\* for action, path in files: ... compute the starting directory.
ForEachFile ==
  /\ pc = "for"
  /\ idx <= Len(files)
  /\ dir_with_owners' = StartDir(files[idx][2], max_depth)
  /\ pc' = "while"
  /\ UNCHANGED <<files, owners_dirs, max_depth, idx, files_split_by_owners>>
  /\ UNCHANGED runVars

\* The while condition of the upward walk.
MustWalkUp ==
  /\ dir_with_owners \notin Keys(files_split_by_owners)
  /\ ~HasOwnersFile(dir_with_owners)

\* The while condition holds: the loop body is entered.
ContinueWalk ==
  /\ pc = "while"
  /\ MustWalkUp
  /\ pc' = "up"
  /\ UNCHANGED <<splitVars, runVars>>

\* The loop body: dir_with_owners = os.path.dirname(dir_with_owners).
WalkUp ==
  /\ pc = "up"
  /\ dir_with_owners' = Dirname(dir_with_owners)
  /\ pc' = "while"
  /\ UNCHANGED <<files, owners_dirs, max_depth, idx, files_split_by_owners>>
  /\ UNCHANGED runVars

\* The loop ended: the file joins the group of dir_with_owners.
AddToGroup ==
  /\ pc = "while"
  /\ ~MustWalkUp
  /\ files_split_by_owners' =
       SetDefaultAppend(files_split_by_owners, dir_with_owners, files[idx])
  /\ idx' = idx + 1
  /\ pc' = "for"
  /\ UNCHANGED <<files, owners_dirs, max_depth, dir_with_owners>>
  /\ UNCHANGED runVars

\* return files_split_by_owners
ReturnSplit ==
  /\ pc = "for"
  /\ idx > Len(files)
  /\ pc' = "split_done"
  /\ UNCHANGED <<files, owners_dirs, max_depth, idx, dir_with_owners,
                 files_split_by_owners>>
  /\ UNCHANGED runVars

\* The repository and the arguments before SplitCl is called.
RunInit ==
  /\ branches = { OriginalBranch }
  /\ refactor_branch = NoBranch
  /\ cl_index = 0
  /\ ret = 0
  /\ result = "running"
  /\ log = << >>
  /\ rerun = FALSE
  /\ prev = NoRun

\* A call of GetFilesSplitByOwners(files, max_depth) on its own.
SplitInit ==
  /\ files \in ListsUpTo(Entries, MaxFiles)
  /\ owners_dirs \in SUBSET Dirs
  /\ max_depth \in -1..MaxDepthArg
  /\ idx = 1
  /\ dir_with_owners = Dot
  /\ files_split_by_owners = << >>
  /\ pc = "for"
  /\ dry_run = FALSE
  /\ cq_dry_run = FALSE
  /\ comment = FALSE
  /\ description = PlainDescription
  /\ current_branch = OriginalBranch
  /\ RunInit

SplitNext == ForEachFile \/ ContinueWalk \/ WalkUp \/ AddToGroup \/ ReturnSplit

SplitSpec == SplitInit /\ [][SplitNext]_vars

\* The function is straight-line code on one thread: its next step is taken.
FairSplitSpec == SplitSpec /\ WF_vars(SplitNext)

\* ------------------------------------------------------------- constants
CL_SPLIT_FORCE_LIMIT == 10

\* ---------------------------------------------------------------- helpers
\* directory.replace(os.path.sep, '/'): the characters of the directory name.
RECURSIVE Tokens(_)
Tokens(d) ==
  IF Len(d) <= 1 THEN d ELSE <<d[1], "/">> \o Tokens(Tail(d))

\* A name made of the first component of the directory only.
BranchNameOfTopDirectory(prefix, directory) ==
  prefix \o <<"_">> \o SubSeq(directory, 1, Min(1, Len(directory))) \o <<"_split">>

\* branch_name = prefix + '_' + directory + '_split'
BranchName(prefix, directory) ==
  prefix \o <<"_">> \o Tokens(directory) \o <<"_split">>

\* A listing that only shows the branch that is checked out.
BranchExistsInCurrent(name) == name \in { current_branch }

\* branch_name in existing_branches
BranchExists(name) == name \in branches

\* An iteration over the items in reverse.
GroupAtReversed(i) == files_split_by_owners[Len(files_split_by_owners) + 1 - i]

\* enumerate(files_split_by_owners.items(), 1): the item numbered i.
GroupAt(i) == files_split_by_owners[i]

\* The group the loop of SplitCl is at.
Directory == GroupAt(cl_index).dir
GroupFiles == GroupAt(cl_index).files

\* A prefix taken from the branch that is checked out at the time.
PublishBranchFromCurrent == BranchName(current_branch, Directory)

\* The branch UploadCl passes refactor_branch and directory for.
PublishBranch == BranchName(refactor_branch, Directory)

\* os.path.abspath(os.path.join(repository_root, f))
Abspath(f) == <<"", "repo">> \o f

\* Every file of the group, deleted ones included.
EveryFile(fs) == [i \in 1..Len(fs) |-> Abspath(fs[i][2])]

\* The files UploadCl removes and the files it checks out.
RECURSIVE DeletedFiles(_)
DeletedFiles(fs) ==
  IF fs = << >> THEN << >>
  ELSE IF fs[1][1] = "D"
       THEN <<Abspath(fs[1][2])>> \o DeletedFiles(Tail(fs))
       ELSE DeletedFiles(Tail(fs))

RECURSIVE ModifiedFiles(_)
ModifiedFiles(fs) ==
  IF fs = << >> THEN << >>
  ELSE IF fs[1][1] = "D"
       THEN ModifiedFiles(Tail(fs))
       ELSE <<Abspath(fs[1][2])>> \o ModifiedFiles(Tail(fs))

\* answer.lower()
Lower(answer) == IF answer = "Y" THEN "y" ELSE answer

\* re.findall(r"^Bug:\s*(?:[a-zA-Z]+:)?[0-9]+", description, re.MULTILINE)
IsSpace(t) == t \in { " ", "\n" }
IsDigits(t) == t \in { "123", "456" }
IsAlphaColon(t) == t \in { "chromium:", "b:" }
BugPatternWithoutPrefix(d) ==
  \E i \in 1..Len(d) :
    /\ i = 1 \/ d[i - 1] = "\n"
    /\ d[i] = "Bug:"
    /\ \E j \in (i + 1)..Len(d) :
         /\ \A k \in (i + 1)..(j - 1) : IsSpace(d[k])
         /\ IsDigits(d[j])

BugPatternMatches(d) ==
  \E i \in 1..Len(d) :
    /\ i = 1 \/ d[i - 1] = "\n"
    /\ d[i] = "Bug:"
    /\ \E j \in (i + 1)..Len(d) :
         /\ \A k \in (i + 1)..(j - 1) : IsSpace(d[k])
         /\ \/ IsDigits(d[j])
            \/ IsAlphaColon(d[j]) /\ j + 1 <= Len(d) /\ IsDigits(d[j + 1])

\* One entry of the record of what the run did.
Event(op, dir, arg) == [op |-> op, dir |-> dir, on |-> current_branch, arg |-> arg]

\* A handler inside the loop: the failure is swallowed and the loop goes on.
FailAndContinue ==
  /\ pc' = "loop"
  /\ result' = result

\* except subprocess2.CalledProcessError: return 1
Fail ==
  /\ pc' = "done"
  /\ result' = "1"

\* ---------------------------------------------------------------- SplitCl
\* EnsureInGitRepository(): git rev-parse.
EnsureInGitRepository ==
  /\ pc = "start"
  /\ \E ok \in BOOLEAN :
       IF ok THEN pc' = "status" /\ result' = result ELSE Fail
  /\ UNCHANGED <<splitVars, flagVars, repoVars, refactor_branch, cl_index, ret,
                 log, rerun, prev>>

\* The common ancestor with the upstream, the status diff, the empty check.
CaptureStatus ==
  /\ pc = "status"
  /\ \E ok \in BOOLEAN :
       IF ~ok THEN Fail
       ELSE IF files = << >> THEN pc' = "done" /\ result' = "1"
       ELSE pc' = "config" /\ result' = result
  /\ UNCHANGED <<splitVars, flagVars, repoVars, refactor_branch, cl_index, ret,
                 log, rerun, prev>>

\* git config user.email, the current branch and its upstream, the two
\* assertions, and the call of GetFilesSplitByOwners.
ResolveBranch ==
  /\ pc = "config"
  /\ \E ok \in BOOLEAN, has_upstream \in BOOLEAN :
       IF ~ok
       THEN Fail /\ UNCHANGED refactor_branch
       ELSE /\ refactor_branch' = current_branch
            /\ IF current_branch = NoBranch \/ ~has_upstream
               THEN pc' = "done" /\ result' = "AssertionError"
               ELSE pc' = "for" /\ result' = result
  /\ idx' = 1
  /\ files_split_by_owners' = << >>
  /\ UNCHANGED <<inputVars, dir_with_owners, flagVars, repoVars, cl_index, ret,
                 log, rerun, prev>>

\* The fan-out test with >= in place of >.
FanOutGateAtLimit ==
  /\ pc = "split_done"
  /\ pc' = IF cq_dry_run /\ Len(files_split_by_owners) >= CL_SPLIT_FORCE_LIMIT
           THEN "ask_fanout" ELSE "bug_gate"
  /\ UNCHANGED <<splitVars, runVars>>

\* num_cls = len(files_split_by_owners); the fan-out test.
FanOutGate ==
  /\ pc = "split_done"
  /\ pc' = IF cq_dry_run /\ Len(files_split_by_owners) > CL_SPLIT_FORCE_LIMIT
           THEN "ask_fanout" ELSE "bug_gate"
  /\ UNCHANGED <<splitVars, runVars>>

\* answer = AskForData('Proceed? (y/n):')
AnswerFanOut ==
  /\ pc = "ask_fanout"
  /\ \E answer \in Answers :
       IF Lower(answer) # "y"
       THEN pc' = "done" /\ result' = "0"
       ELSE pc' = "bug_gate" /\ result' = result
  /\ UNCHANGED <<splitVars, flagVars, repoVars, refactor_branch, cl_index, ret,
                 log, rerun, prev>>

\* The bug-link test.
BugLinkGate ==
  /\ pc = "bug_gate"
  /\ pc' = IF BugPatternMatches(description) THEN "loop" ELSE "ask_bug"
  /\ UNCHANGED <<splitVars, runVars>>

\* answer = AskForData('Description does not include a bug link. ...')
AnswerBugLink ==
  /\ pc = "ask_bug"
  /\ \E answer \in Answers :
       IF Lower(answer) # "y"
       THEN pc' = "done" /\ result' = "0"
       ELSE pc' = "loop" /\ result' = result
  /\ UNCHANGED <<splitVars, flagVars, repoVars, refactor_branch, cl_index, ret,
                 log, rerun, prev>>

\* for cl_index, (directory, files) in enumerate(...items(), 1)
NextGroup ==
  /\ pc = "loop"
  /\ cl_index < Len(files_split_by_owners)
  /\ cl_index' = cl_index + 1
  /\ pc' = "group"
  /\ UNCHANGED <<splitVars, flagVars, repoVars, refactor_branch, ret, result,
                 log, rerun, prev>>

\* if dry_run: PrintClInfo(...)
PrintClInfo ==
  /\ pc = "group"
  /\ dry_run
  /\ log' = Append(log, Event("print", Directory, cl_index))
  /\ pc' = "loop"
  /\ UNCHANGED <<splitVars, flagVars, repoVars, refactor_branch, cl_index, ret,
                 result, rerun, prev>>

\* ---------------------------------------------------------------- UploadCl
\* git.branches() fails.
ListBranchesFails ==
  /\ pc = "group"
  /\ ~dry_run
  /\ Fail
  /\ UNCHANGED <<splitVars, flagVars, repoVars, refactor_branch, cl_index, ret,
                 log, rerun, prev>>

\* A skip that checks the existing branch out.
SkipExistingCheckingOut ==
  /\ pc = "group"
  /\ ~dry_run
  /\ BranchExists(PublishBranch)
  /\ current_branch' = PublishBranch
  /\ log' = Append(log, Event("skip", Directory, PublishBranch))
  /\ pc' = "loop"
  /\ UNCHANGED <<splitVars, flagVars, branches, refactor_branch, cl_index, ret,
                 result, rerun, prev>>

\* CreateBranchForDirectory returns False: 'Skipping ...', return.
SkipExisting ==
  /\ pc = "group"
  /\ ~dry_run
  /\ BranchExists(PublishBranch)
  /\ log' = Append(log, Event("skip", Directory, PublishBranch))
  /\ pc' = "loop"
  /\ UNCHANGED <<splitVars, flagVars, repoVars, refactor_branch, cl_index, ret,
                 result, rerun, prev>>

\* A branch creation that does not look at dry_run.
CreateBranchInDryRun ==
  /\ pc = "group"
  /\ ~BranchExists(PublishBranch)
  /\ \E ok \in BOOLEAN :
       IF ok
       THEN /\ branches' = branches \cup { PublishBranch }
            /\ current_branch' = PublishBranch
            /\ log' = Append(log, Event("branch", Directory, PublishBranch))
            /\ pc' = "rm"
            /\ result' = result
       ELSE Fail /\ UNCHANGED <<repoVars, log>>
  /\ UNCHANGED <<splitVars, flagVars, refactor_branch, cl_index, ret, rerun,
                 prev>>

\* git checkout -t upstream -b branch_name
CreateBranch ==
  /\ pc = "group"
  /\ ~dry_run
  /\ ~BranchExists(PublishBranch)
  /\ \E ok \in BOOLEAN :
       IF ok
       THEN /\ branches' = branches \cup { PublishBranch }
            /\ current_branch' = PublishBranch
            /\ log' = Append(log, Event("branch", Directory, PublishBranch))
            /\ pc' = "rm"
            /\ result' = result
       ELSE Fail /\ UNCHANGED <<repoVars, log>>
  /\ UNCHANGED <<splitVars, flagVars, refactor_branch, cl_index, ret, rerun,
                 prev>>

\* if deleted_files: git rm deleted_files
RemoveDeleted ==
  /\ pc = "rm"
  /\ IF DeletedFiles(GroupFiles) = << >>
     THEN pc' = "checkout" /\ UNCHANGED <<log, result>>
     ELSE \E ok \in BOOLEAN :
            IF ok
            THEN /\ log' = Append(log, Event("rm", Directory, DeletedFiles(GroupFiles)))
                 /\ pc' = "checkout"
                 /\ result' = result
            ELSE Fail /\ UNCHANGED log
  /\ UNCHANGED <<splitVars, flagVars, repoVars, refactor_branch, cl_index, ret,
                 rerun, prev>>

\* A working-tree change followed by the upload, without the commit.
CheckoutModifiedThenUpload ==
  /\ pc = "checkout"
  /\ IF ModifiedFiles(GroupFiles) = << >>
     THEN pc' = "upload" /\ UNCHANGED <<log, result>>
     ELSE \E ok \in BOOLEAN :
            IF ok
            THEN /\ log' = Append(log, Event("checkout", Directory,
                                             ModifiedFiles(GroupFiles)))
                 /\ pc' = "upload"
                 /\ result' = result
            ELSE Fail /\ UNCHANGED log
  /\ UNCHANGED <<splitVars, flagVars, repoVars, refactor_branch, cl_index, ret,
                 rerun, prev>>

\* if modified_files: git checkout refactor_branch -- modified_files
CheckoutModified ==
  /\ pc = "checkout"
  /\ IF ModifiedFiles(GroupFiles) = << >>
     THEN pc' = "commit" /\ UNCHANGED <<log, result>>
     ELSE \E ok \in BOOLEAN :
            IF ok
            THEN /\ log' = Append(log, Event("checkout", Directory,
                                             ModifiedFiles(GroupFiles)))
                 /\ pc' = "commit"
                 /\ result' = result
            ELSE Fail /\ UNCHANGED log
  /\ UNCHANGED <<splitVars, flagVars, repoVars, refactor_branch, cl_index, ret,
                 rerun, prev>>

\* git commit -F tmp_file
Commit ==
  /\ pc = "commit"
  /\ \E ok \in BOOLEAN :
       IF ok
       THEN /\ log' = Append(log, Event("commit", Directory, Directory))
            /\ pc' = "upload"
            /\ result' = result
       ELSE Fail /\ UNCHANGED log
  /\ UNCHANGED <<splitVars, flagVars, repoVars, refactor_branch, cl_index, ret,
                 rerun, prev>>

\* An upload whose nonzero result ends the run.
UploadOrFail ==
  /\ pc = "upload"
  /\ \E r \in {0, 1} :
       /\ ret' = r
       /\ IF r = 0 THEN pc' = "comment" /\ result' = result ELSE Fail
  /\ log' = Append(log, Event("upload", Directory,
                              [send_mail |-> ~comment, cq_dry_run |-> cq_dry_run]))
  /\ UNCHANGED <<splitVars, flagVars, repoVars, refactor_branch, cl_index,
                 rerun, prev>>

\* ret = cmd_upload(upload_args), and the report of a nonzero ret.
Upload ==
  /\ pc = "upload"
  /\ \E r \in {0, 1} : ret' = r
  /\ log' = Append(log, Event("upload", Directory,
                              [send_mail |-> ~comment, cq_dry_run |-> cq_dry_run]))
  /\ pc' = "comment"
  /\ UNCHANGED <<splitVars, flagVars, repoVars, refactor_branch, cl_index,
                 result, rerun, prev>>

\* A comment that is posted only when the upload returned zero.
AddCommentOnSuccess ==
  /\ pc = "comment"
  /\ log' = IF comment /\ ret = 0
            THEN Append(log, Event("comment", Directory, Directory))
            ELSE log
  /\ pc' = "loop"
  /\ UNCHANGED <<splitVars, flagVars, repoVars, refactor_branch, cl_index, ret,
                 result, rerun, prev>>

\* if comment: changelist().AddComment(...); UploadCl returns.
AddComment ==
  /\ pc = "comment"
  /\ log' = IF comment THEN Append(log, Event("comment", Directory, Directory))
            ELSE log
  /\ pc' = "loop"
  /\ UNCHANGED <<splitVars, flagVars, repoVars, refactor_branch, cl_index, ret,
                 result, rerun, prev>>

\* A return without the checkout.
RestoreBranchWithoutCheckout ==
  /\ pc = "loop"
  /\ cl_index >= Len(files_split_by_owners)
  /\ pc' = "done"
  /\ result' = "0"
  /\ UNCHANGED <<splitVars, flagVars, repoVars, refactor_branch, cl_index, ret,
                 log, rerun, prev>>

\* git checkout refactor_branch; return 0
RestoreBranch ==
  /\ pc = "loop"
  /\ cl_index >= Len(files_split_by_owners)
  /\ \E ok \in BOOLEAN :
       IF ok
       THEN /\ current_branch' = refactor_branch
            /\ pc' = "done"
            /\ result' = "0"
       ELSE Fail /\ UNCHANGED current_branch
  /\ UNCHANGED <<splitVars, flagVars, branches, refactor_branch, cl_index, ret,
                 log, rerun, prev>>

\* The user checks out the original branch and runs the command again, on the
\* same changed files and the same OWNERS files.
Rerun ==
  /\ pc = "done"
  /\ ~rerun
  /\ rerun' = TRUE
  /\ prev' = [result |-> result,
              looped |-> result = "0" /\ cl_index >= 1,
              dry_run |-> dry_run,
              branches |-> branches,
              created |-> { log[i].dir : i \in { k \in 1..Len(log) : log[k].op = "branch" } }]
  /\ current_branch' = IF refactor_branch = NoBranch THEN current_branch
                       ELSE refactor_branch
  /\ dry_run' \in BOOLEAN
  /\ pc' = "start"
  /\ result' = "running"
  /\ log' = << >>
  /\ cl_index' = 0
  /\ ret' = 0
  /\ refactor_branch' = NoBranch
  /\ idx' = 1
  /\ dir_with_owners' = Dot
  /\ files_split_by_owners' = << >>
  /\ UNCHANGED <<inputVars, cq_dry_run, comment, description, branches>>

\* ------------------------------------------------------------------ runs
WideNames == <<"d01", "d02", "d03", "d04", "d05", "d06", "d07", "d08", "d09",
               "d10", "d11">>
WideFiles(n) == [i \in 1..n |-> <<"M", <<WideNames[i], "f.txt">> >>]
WideDirs == { <<WideNames[i]>> : i \in 1..Len(WideNames) } \cup { Root }

RunEntries == { <<"M", <<"a", "b", "x.txt">> >>,
                <<"M", <<"a", "c", "y.txt">> >>,
                <<"D", <<"a", "b", "z.txt">> >> }
RunLayouts == { { Root, <<"a">>, <<"a", "b">> }, { Root }, { } }

RunInputs ==
  { [files |-> f, owners_dirs |-> o, max_depth |-> m] :
      f \in ListsUpTo(RunEntries, MaxFiles), o \in RunLayouts, m \in {0, 1} }
  \cup
  { [files |-> WideFiles(n), owners_dirs |-> WideDirs, max_depth |-> 0] :
      n \in { CL_SPLIT_FORCE_LIMIT, CL_SPLIT_FORCE_LIMIT + 1 } }

Init ==
  /\ \E in \in RunInputs :
       /\ files = in.files
       /\ owners_dirs = in.owners_dirs
       /\ max_depth = in.max_depth
  /\ idx = 1
  /\ dir_with_owners = Dot
  /\ files_split_by_owners = << >>
  /\ pc = "start"
  /\ dry_run \in BOOLEAN
  /\ cq_dry_run \in BOOLEAN
  /\ comment \in BOOLEAN
  /\ description \in Descriptions
  /\ current_branch \in { OriginalBranch, NoBranch }
  /\ RunInit

Next ==
  \/ EnsureInGitRepository
  \/ CaptureStatus
  \/ ResolveBranch
  \/ ForEachFile
  \/ ContinueWalk
  \/ WalkUp
  \/ AddToGroup
  \/ ReturnSplit
  \/ FanOutGate
  \/ AnswerFanOut
  \/ BugLinkGate
  \/ AnswerBugLink
  \/ NextGroup
  \/ PrintClInfo
  \/ ListBranchesFails
  \/ SkipExisting
  \/ CreateBranch
  \/ RemoveDeleted
  \/ CheckoutModified
  \/ Commit
  \/ Upload
  \/ AddComment
  \/ RestoreBranch
  \/ Rerun

Spec == Init /\ [][Next]_vars

\* ------------------------------------------------------------ vocabulary
SplitReturned == pc = "split_done"

Count(seq, e) == Cardinality({ i \in 1..Len(seq) : seq[i] = e })
GroupsWith(e) ==
  { i \in 1..Len(files_split_by_owners) :
      Count(files_split_by_owners[i].files, e) > 0 }

\* The directory that contains a file, as a real directory below the root.
ContainingDir(path) == SubSeq(path, 1, Len(path) - 1)

\* The nearest ancestor-or-equal directory of d that holds an OWNERS file.
OwnersAncestors(d) == { SubSeq(d, 1, n) : n \in 0..Len(d) } \cap owners_dirs
NearestOwnersDir(d) ==
  CHOOSE p \in OwnersAncestors(d) : \A q \in OwnersAncestors(d) : Len(q) <= Len(p)

\* The directory the search for a file is meant to start from.
ExpectedStart(path) ==
  LET d == ContainingDir(path)
  IN IF max_depth >= 1 /\ Len(d) > max_depth THEN SubSeq(d, 1, max_depth) ELSE d

\* The key of the group a file of the input was put in.
KeyOf(e) == files_split_by_owners[CHOOSE i \in GroupsWith(e) : TRUE].dir

\* ---------------------------------------------------------------- claims
\* C1: when GetFilesSplitByOwners returns, the groups are a partition of the
\* input: every (action, path) entry of the input is in exactly one group, as
\* many times as it occurs in the input, and no group holds an entry that is
\* not in the input; no two groups share a key.
GroupsPartitionInput ==
  SplitReturned =>
    /\ \A e \in Entries :
         IF Count(files, e) = 0
         THEN GroupsWith(e) = {}
         ELSE /\ Cardinality(GroupsWith(e)) = 1
              /\ \A i \in GroupsWith(e) :
                   Count(files_split_by_owners[i].files, e) = Count(files, e)
    /\ \A i \in 1..Len(files_split_by_owners) :
         /\ \A k \in 1..Len(files_split_by_owners[i].files) :
              files_split_by_owners[i].files[k] \in Entries
         /\ \A j \in 1..Len(files_split_by_owners) :
              files_split_by_owners[i].dir = files_split_by_owners[j].dir => i = j

\* Three files, one of them twice, returned in two groups.
GroupsPartitionInputWitness ==
  /\ SplitReturned
  /\ Len(files) = 3
  /\ files[1] = files[3]
  /\ files[1] # files[2]
  /\ Len(files_split_by_owners) = 2

\* C2: GetFilesSplitByOwners returns for every file list and every layout of
\* OWNERS files, also when no ancestor up to the root holds one.
SplitTerminates == <>SplitReturned

\* C3: two files of the input with the same nearest OWNERS directory are in
\* the same group, the repository root included.
SameOwnersSameKey ==
  SplitReturned =>
    \A i, j \in 1..Len(files) :
      NearestOwnersDir(ContainingDir(files[i][2])) =
        NearestOwnersDir(ContainingDir(files[j][2]))
      => KeyOf(files[i]) = KeyOf(files[j])

\* C4: every file is grouped under the nearest ancestor-or-equal directory
\* of its (depth-truncated) directory that holds an OWNERS file, every key of
\* the mapping names a directory that holds one, and the scenario
\* a/b/x.txt M, a/c/y.txt M, a/b/z.txt D with OWNERS in a/b and a and no depth
\* limit yields the groups a/b: x.txt, z.txt and a: y.txt.
ScenarioFiles ==
  << <<"M", <<"a", "b", "x.txt">> >>,
     <<"M", <<"a", "c", "y.txt">> >>,
     <<"D", <<"a", "b", "z.txt">> >> >>

ScenarioInput ==
  /\ files = ScenarioFiles
  /\ owners_dirs = { <<"a", "b">>, <<"a">> }
  /\ max_depth = 0

ScenarioGroups ==
  << [dir |-> <<"a", "b">>, files |-> << ScenarioFiles[1], ScenarioFiles[3] >>],
     [dir |-> <<"a">>, files |-> << ScenarioFiles[2] >>] >>

KeyIsNearestOwnersDir ==
  /\ \A i \in 1..Len(files_split_by_owners) :
       /\ Resolve(files_split_by_owners[i].dir) \in owners_dirs
       /\ \A k \in 1..Len(files_split_by_owners[i].files) :
            Resolve(files_split_by_owners[i].dir) =
              NearestOwnersDir(ExpectedStart(files_split_by_owners[i].files[k][2]))
  /\ (SplitReturned /\ ScenarioInput) => files_split_by_owners = ScenarioGroups

KeyIsNearestOwnersDirWitness ==
  /\ SplitReturned
  /\ ScenarioInput
  /\ Len(files_split_by_owners) = 2

\* C5: with max_depth >= 1 the search for a file starts from the first
\* max_depth components of its directory, and every directory the walk
\* visits and every key has at most max_depth components; with
\* max_depth < 1 the search starts from the file's full directory.
DepthLimitsSearch ==
  /\ [][(pc = "for" /\ pc' = "while") =>
          Resolve(dir_with_owners') =
            (IF max_depth >= 1
             THEN SubSeq(ContainingDir(files[idx][2]), 1,
                         Min(max_depth, Len(ContainingDir(files[idx][2]))))
             ELSE ContainingDir(files[idx][2]))]_vars
  /\ [](max_depth >= 1 =>
          /\ pc \in { "while", "up" } => Len(dir_with_owners) <= max_depth
          /\ \A i \in 1..Len(files_split_by_owners) :
               Len(files_split_by_owners[i].dir) <= max_depth)

\* A file two directories deep, both holding OWNERS, grouped one deep.
DepthLimitsSearchWitness ==
  /\ SplitReturned
  /\ max_depth = 1
  /\ {<<"a">>, <<"a", "b">>} \subseteq owners_dirs
  /\ \E i \in 1..Len(files_split_by_owners) :
       /\ files_split_by_owners[i].dir = <<"a">>
       /\ <<"M", <<"a", "b", "x.txt">> >> \in
            { files_split_by_owners[i].files[k] :
                k \in 1..Len(files_split_by_owners[i].files) }

\* ------------------------------------------------------- run vocabulary
EffectOps == { "branch", "rm", "checkout", "commit", "upload", "comment" }
Effects(l) == SelectSeq(l, LAMBDA e : e.op \in EffectOps)
OpsOf(l, op) == SelectSeq(l, LAMBDA e : e.op = op)

\* The files of the group with key dir.
MembersOf(dir) ==
  LET g == files_split_by_owners[IndexOf(files_split_by_owners, dir)].files
  IN { g[k] : k \in 1..Len(g) }

\* The position in the input of the first file that was put under dir.
FirstSeen(dir) ==
  LET members == MembersOf(dir)
  IN CHOOSE i \in 1..Len(files) :
       /\ files[i] \in members
       /\ \A k \in 1..(i - 1) : files[k] \notin members

\* The number a group gets when groups are numbered by first discovery.
DiscoveryRank(dir) ==
  LET first == FirstSeen(dir)
  IN 1 + Cardinality({ d \in Keys(files_split_by_owners) : FirstSeen(d) < first })

InGroupBody == pc \in { "group", "rm", "checkout", "commit", "upload", "comment" }

\* C6: groups are numbered and processed one at a time in the order in which
\* their keys were first discovered in the input: what the run does follows
\* the discovery order (so the steps of two groups never interleave), a
\* group is only reached after every group discovered before it, and the
\* number of a group is its discovery rank.
ProcessedInDiscoveryOrder ==
  LET seen == [i \in 1..Len(log) |-> FirstSeen(log[i].dir)]
      done == { log[i].dir : i \in 1..Len(log) }
  IN /\ \A i \in 1..(Len(log) - 1) : seen[i] <= seen[i + 1]
     /\ \A d \in Keys(files_split_by_owners) :
          (Len(log) >= 1 /\ FirstSeen(d) < seen[Len(log)]) => d \in done
     /\ \A i \in 1..Len(log) :
          log[i].op = "print" => log[i].arg = DiscoveryRank(log[i].dir)
     /\ InGroupBody => cl_index = DiscoveryRank(Directory)

\* The scenario's interleaved files, both groups published in a first run.
ProcessedInDiscoveryOrderWitness ==
  /\ pc = "done"
  /\ result = "0"
  /\ ~rerun
  /\ files = ScenarioFiles
  /\ Len(OpsOf(log, "upload")) = 2
  /\ log[1].dir = <<"a", "b">>
  /\ log[Len(log)].dir = <<"a">>

\* C7: when a first full run that was not a dry run went through every
\* group, a second full run from the same original branch on the same files
\* and OWNERS files creates no branch, removes and checks out no file, makes
\* no commit, no upload and no comment, and skips every group.
SecondRunDoesNothing ==
  (rerun /\ prev.looped /\ ~prev.dry_run /\ ~dry_run) =>
    /\ Effects(log) = << >>
    /\ branches = prev.branches
    /\ current_branch = OriginalBranch
    /\ (pc = "done" /\ result = "0" /\ cl_index >= 1) =>
         /\ Len(OpsOf(log, "skip")) = Len(files_split_by_owners)
         /\ Len(log) = Len(files_split_by_owners)

\* A second run that skipped two groups the first run had created.
SecondRunDoesNothingWitness ==
  /\ rerun
  /\ prev.looped
  /\ ~prev.dry_run
  /\ ~dry_run
  /\ Cardinality(prev.created) = 2
  /\ pc = "done"
  /\ result = "0"
  /\ Len(OpsOf(log, "skip")) = 2

\* C8: when UploadCl is called for a group whose publish branch already
\* exists and returns, the branches, the current branch, the working tree
\* and the commits are as before, nothing was uploaded or commented, and the
\* run goes on.
SkipLeavesRepository ==
  [][(pc = "group" /\ ~dry_run /\ BranchExists(PublishBranch) /\ pc' # "done") =>
       /\ branches' = branches
       /\ current_branch' = current_branch
       /\ Effects(log') = Effects(log)
       /\ result' = result
       /\ pc' = "loop"]_vars

\* UploadCl has just returned from a group whose branch existed.
SkipLeavesRepositoryWitness ==
  /\ pc = "loop"
  /\ ~dry_run
  /\ Len(log) >= 1
  /\ log[Len(log)].op = "skip"
  /\ log[Len(log)].arg \in branches

EndsOnOriginalBranch ==
  (pc = "done" /\ cl_index >= 1) => current_branch = refactor_branch

\* C10 (amended): a run that started on the groups ends with 0 or 1, and
\* whenever it ends with 0 the current branch is the branch it started on.
ReturnsZeroOnOriginalBranch ==
  (pc = "done" /\ cl_index >= 1) =>
    /\ result \in { "0", "1" }
    /\ result = "0" => (current_branch = refactor_branch /\
                        refactor_branch = OriginalBranch)

\* A first run that created a branch, so left the original one, and ended 0.
ReturnsZeroOnOriginalBranchWitness ==
  /\ pc = "done"
  /\ result = "0"
  /\ ~rerun
  /\ Len(OpsOf(log, "branch")) >= 1
  /\ current_branch = OriginalBranch

\* The steps UploadCl has taken for the group with key dir in this run.
GroupOps(dir) == { log[i].op : i \in { k \in 1..Len(log) : log[k].dir = dir } }

\* UploadCl was called for the group and returned.
Driven(dir) ==
  \/ "skip" \in GroupOps(dir)
  \/ {"branch", "commit", "upload"} \subseteq GroupOps(dir)

\* C11: a nonzero result of cmd_upload does not end the run: when it is
\* reported, the current branch is the publish branch this run has just
\* created for the group; UploadCl goes on to the comment step and returns
\* to the loop with the run still running; and a run that returns 0 has
\* called UploadCl to its end for every group and is back on the original
\* branch, whatever the uploads returned.
UploadFailureIsNotFatal ==
  /\ [][pc = "upload" => (pc' = "comment" /\ result' = result)]_vars
  /\ [][(pc = "comment" /\ ret # 0) => (pc' = "loop" /\ result' = result)]_vars
  /\ []((pc = "comment" /\ ret # 0) =>
          /\ result = "running"
          /\ current_branch = PublishBranch
          /\ current_branch \in branches
          /\ \E i \in 1..Len(log) :
               log[i].op = "branch" /\ log[i].arg = current_branch)
  /\ []((pc = "done" /\ result = "0" /\ ~dry_run /\ cl_index >= 1) =>
          /\ \A d \in Keys(files_split_by_owners) : Driven(d)
          /\ current_branch = refactor_branch)

\* The first group's upload returned nonzero and the second group has got
\* as far as its own upload.
UploadFailureIsNotFatalWitness ==
  /\ pc = "upload"
  /\ ret = 1
  /\ cl_index = 2
  /\ ~rerun
  /\ Len(OpsOf(log, "upload")) = 1
  /\ Len(OpsOf(log, "commit")) = 2

\* The keys of the groups the loop of SplitCl has reached so far.
ReachedDirs == { GroupAt(i).dir : i \in 1..cl_index }

\* C12: a failing version-control call ends the run with 1 on the spot and
\* undoes nothing: the step that fails leaves the branches, the current
\* branch and what was done as they are; a run that stopped inside a group
\* returned 1; no group is reached while an earlier one is unfinished, so no
\* group after the failing one is processed; a run that has ended does
\* nothing more; and every branch the run created still exists.
ProcessFailureEndsRun ==
  /\ [][(result = "running" /\ result' = "1") =>
          /\ pc' = "done"
          /\ branches' = branches
          /\ current_branch' = current_branch
          /\ log' = log
          /\ cl_index' = cl_index]_vars
  /\ [][pc = "done" => (~rerun /\ rerun')]_vars
  /\ []((pc = "done" /\ cl_index >= 1 /\ ~dry_run /\ ~Driven(Directory)) =>
          result = "1")
  /\ []((~dry_run /\ cl_index >= 1) =>
          /\ \A i \in 1..(cl_index - 1) : Driven(GroupAt(i).dir)
          /\ \A i \in 1..Len(log) : log[i].dir \in ReachedDirs)
  /\ [](\A i \in 1..Len(log) : log[i].op = "branch" => log[i].arg \in branches)

\* The first of two groups failed after its branch was created: the run
\* returned 1 on that branch, which still exists; the second group was never
\* reached.
ProcessFailureEndsRunWitness ==
  /\ pc = "done"
  /\ result = "1"
  /\ ~rerun
  /\ cl_index = 1
  /\ Len(files_split_by_owners) = 2
  /\ Len(OpsOf(log, "branch")) = 1
  /\ current_branch # OriginalBranch
  /\ current_branch \in branches

\* The run ended before GetFilesSplitByOwners returned a group.
EndedBeforeGroups == pc = "done" /\ files_split_by_owners = << >>

\* C13: a run stopped by a precondition error (not in a repository, detached
\* branch, no upstream, empty change set) returns 1 and has processed no
\* group: no branch, commit, upload or comment.
PreconditionErrorsReturnOne ==
  EndedBeforeGroups =>
    /\ result = "1"
    /\ log = << >>
    /\ cl_index = 0
    /\ branches = IF rerun THEN prev.branches ELSE { OriginalBranch }

\* This run has processed no group: nothing printed or done, no branch created.
NothingProcessed ==
  /\ log = << >>
  /\ cl_index = 0
  /\ branches = IF rerun THEN prev.branches ELSE { OriginalBranch }

\* C14: the fan-out prompt is shown exactly when cq_dry_run is set and there
\* are more than 10 groups, once, before any group; a run with 10 groups or
\* without cq_dry_run never shows it; an answer other than y returns 0 with
\* no group processed, an answer y goes on to the bug-link check.
FanOutGatePromptsAboveLimit ==
  /\ [][pc = "split_done" =>
          (pc' = "ask_fanout" <=>
             (cq_dry_run /\ Len(files_split_by_owners) >= 11))]_vars
  /\ [][(pc' = "ask_fanout" /\ pc # "ask_fanout") => pc = "split_done"]_vars
  /\ [](pc = "ask_fanout" => (result = "running" /\ NothingProcessed))
  /\ []((Len(files_split_by_owners) <= 10 \/ ~cq_dry_run) => pc # "ask_fanout")
  /\ [][pc = "ask_fanout" =>
          \/ pc' = "done" /\ result' = "0" /\ NothingProcessed'
          \/ pc' = "bug_gate" /\ result' = result /\ NothingProcessed']_vars

\* Eleven groups with cq_dry_run and a bug line in the description: only the
\* fan-out prompt can have ended this run with 0 before the first group.
FanOutGatePromptsAboveLimitWitness ==
  /\ pc = "done"
  /\ result = "0"
  /\ cq_dry_run
  /\ Len(files_split_by_owners) = 11
  /\ description = BugDescription
  /\ NothingProcessed
  /\ ~rerun

\* C15: a description without a Bug: line makes the run ask before any group
\* is processed, a description with one never asks; an answer other than y
\* returns 0, not 1, with no group processed, an answer y starts the loop.
BugLinkGatePromptsWithoutBug ==
  /\ [][pc = "bug_gate" =>
          (pc' = "ask_bug" <=> description = PlainDescription)]_vars
  /\ [][pc = "bug_gate" =>
          (pc' = "loop" <=> description = BugDescription)]_vars
  /\ [][(pc' = "ask_bug" /\ pc # "ask_bug") => pc = "bug_gate"]_vars
  /\ [](pc = "ask_bug" => (result = "running" /\ NothingProcessed))
  /\ [](description = BugDescription => pc # "ask_bug")
  /\ [][pc = "ask_bug" =>
          \/ pc' = "done" /\ result' = "0" /\ NothingProcessed'
          \/ pc' = "loop" /\ result' = result /\ NothingProcessed']_vars
  /\ [][(pc' = "group" /\ cl_index' = 1 /\ description = PlainDescription) =>
          pc = "loop"]_vars

\* A description without a bug line and no fan-out prompt: the run ended with
\* 0 before the first group because the bug-link prompt was declined.
BugLinkGatePromptsWithoutBugWitness ==
  /\ pc = "done"
  /\ result = "0"
  /\ description = PlainDescription
  /\ ~cq_dry_run
  /\ files_split_by_owners # << >>
  /\ NothingProcessed
  /\ ~rerun

\* C16: a dry run, with any number of groups and whatever branches exist
\* already, creates no branch, removes or checks out no file, makes no
\* commit, upload or comment and never leaves the branch it started on; all
\* it does is print the groups, one after the other in their order, and a
\* dry run that returns 0 after the loop has printed every group once.
DryRunOnlyPrints ==
  /\ [](dry_run =>
          /\ Effects(log) = << >>
          /\ \A i \in 1..Len(log) :
               log[i].op = "print" /\ log[i].dir = GroupAt(i).dir /\ log[i].arg = i
          /\ Len(log) <= cl_index
          /\ branches = IF rerun THEN prev.branches ELSE { OriginalBranch }
          /\ current_branch \in { OriginalBranch, NoBranch }
          /\ pc \notin { "rm", "checkout", "commit", "upload", "comment" })
  /\ [][(dry_run /\ dry_run') =>
          (branches' = branches /\ current_branch' = current_branch)]_vars
  /\ []((dry_run /\ pc = "done" /\ result = "0" /\ cl_index >= 1) =>
          Len(log) = Len(files_split_by_owners))

\* A dry run after a real run that created branches has printed its two
\* groups and returned 0.
DryRunOnlyPrintsWitness ==
  /\ dry_run
  /\ rerun
  /\ ~prev.dry_run
  /\ prev.created # {}
  /\ pc = "done"
  /\ result = "0"
  /\ Len(log) = 2
  /\ Cardinality(branches) >= 2

\* The place of a step in the workflow of one group.
StepRank(op) ==
  CASE op = "branch" -> 1
    [] op = "rm" -> 2
    [] op = "checkout" -> 3
    [] op = "commit" -> 4
    [] op = "upload" -> 5
    [] op = "comment" -> 6
    [] OTHER -> 0

\* The steps that may come right before a step, in the same group.
StepsBefore(op) ==
  CASE op = "rm" -> { "branch" }
    [] op = "checkout" -> { "branch", "rm" }
    [] op = "commit" -> { "rm", "checkout" }
    [] op = "upload" -> { "commit" }
    [] op = "comment" -> { "upload" }
    [] OTHER -> { }

\* The steps after which UploadCl has returned.
LastSteps == IF comment THEN { "skip", "comment" } ELSE { "skip", "upload" }

\* C17: in a run that is not a dry run, what is done follows, group by group,
\* the order branch creation, removal and checkout of files, commit, upload,
\* comment: every step after the branch creation comes right after an earlier
\* step of the same group and is made on the branch created for it, so each
\* happens at most once, an upload has its group's branch and commit before
\* it, and a group starts (with a skip or a branch creation) only when the
\* group before it has finished.
StepsInWorkflowOrder ==
  ~dry_run =>
    /\ log # << >> => log[1].op \in { "branch", "skip" }
    /\ \A i \in 1..(Len(log) - 1) :
         LET e == log[i]
             f == log[i + 1]
         IN IF f.op \in { "branch", "skip" }
            THEN /\ e.op \in LastSteps
                 /\ e.dir # f.dir
                 /\ IndexOf(files_split_by_owners, e.dir)
                      < IndexOf(files_split_by_owners, f.dir)
            ELSE /\ e.op \in StepsBefore(f.op)
                 /\ StepRank(e.op) < StepRank(f.op)
                 /\ e.dir = f.dir
                 /\ f.on = IF e.op = "branch" THEN e.arg ELSE e.on
    /\ pc = "upload" =>
         /\ log[Len(log)].op = "commit"
         /\ log[Len(log)].dir = Directory
         /\ \E i \in 1..Len(log) :
              /\ log[i].op = "branch"
              /\ log[i].dir = Directory
              /\ log[i].arg = current_branch

\* The first group went through all six steps and the branch of the second
\* group has just been created.
StepsInWorkflowOrderWitness ==
  /\ ~dry_run
  /\ ~rerun
  /\ pc = "rm"
  /\ cl_index = 2
  /\ Len(log) = 7
  /\ log[2].op = "rm"
  /\ log[3].op = "checkout"
  /\ log[6].op = "comment"
  /\ log[7].op = "branch"

\* C18: with a comment configured, every upload is made without send-mail and
\* is followed, whether it returned zero or not, by one comment for the same
\* group on the same branch, and a comment only ever follows an upload;
\* without a comment, every upload is made with send-mail and no comment is
\* posted.
CommentFollowsEveryUpload ==
  /\ [](\A i \in 1..Len(log) :
          /\ log[i].op = "upload" =>
               /\ log[i].arg.send_mail = ~comment
               /\ comment =>
                    IF i < Len(log)
                    THEN /\ log[i + 1].op = "comment"
                         /\ log[i + 1].dir = log[i].dir
                         /\ log[i + 1].on = log[i].on
                    ELSE pc = "comment"
          /\ log[i].op = "comment" =>
               /\ comment
               /\ i > 1
               /\ log[i - 1].op = "upload"
               /\ log[i - 1].dir = log[i].dir)
  /\ [][(pc = "comment" /\ comment /\ ret \in {0, 1}) =>
          /\ log' = Append(log, [op |-> "comment", dir |-> Directory,
                                 on |-> PublishBranch, arg |-> Directory])
          /\ pc' = "loop"]_vars
  /\ [][(pc = "comment" /\ ~comment) => (log' = log /\ pc' = "loop")]_vars
  /\ [](Len(OpsOf(log, "comment"))
          = IF comment
            THEN Len(OpsOf(log, "upload")) - (IF pc = "comment" THEN 1 ELSE 0)
            ELSE 0)

\* The upload of the second group returned nonzero and its comment was posted.
CommentFollowsEveryUploadWitness ==
  /\ comment
  /\ ret = 1
  /\ pc = "loop"
  /\ cl_index = 2
  /\ Len(OpsOf(log, "comment")) = 2
  /\ log[Len(log)].op = "comment"
  /\ ~rerun

\* The absolute paths of a group's members that are deleted, that are not
\* deleted, and the absolute paths of the members of every other group.
DeletedOf(dir) == { Abspath(e[2]) : e \in { m \in MembersOf(dir) : m[1] = "D" } }
OthersOf(dir) == { Abspath(e[2]) : e \in { m \in MembersOf(dir) : m[1] # "D" } }
ForeignTo(dir) ==
  UNION { { Abspath(e[2]) : e \in MembersOf(d) } :
            d \in Keys(files_split_by_owners) \ { dir } }
Range(seq) == { seq[i] : i \in 1..Len(seq) }

\* C19: on the branch of a group, git rm is given exactly the group's members
\* with action D and git checkout exactly its other members, each only when
\* there are such members, and neither is given a path of another group; a
\* group that is committed had each of its members removed or checked out.
OnlyGroupFilesChange ==
  \A i \in 1..Len(log) :
    LET e == log[i]
    IN /\ e.op = "rm" =>
            /\ Range(e.arg) = DeletedOf(e.dir)
            /\ e.arg # << >>
            /\ Range(e.arg) \cap ForeignTo(e.dir) = {}
            /\ e.on = BranchName(refactor_branch, e.dir)
       /\ e.op = "checkout" =>
            /\ Range(e.arg) = OthersOf(e.dir)
            /\ e.arg # << >>
            /\ Range(e.arg) \cap ForeignTo(e.dir) = {}
            /\ e.on = BranchName(refactor_branch, e.dir)
       /\ e.op = "commit" =>
            LET before == { log[k].op : k \in { j \in 1..(i - 1) : log[j].dir = e.dir } }
            IN /\ "rm" \in before <=> DeletedOf(e.dir) # {}
               /\ "checkout" \in before <=> OthersOf(e.dir) # {}

\* A group with a deleted and a modified member has been removed from and
\* checked out on its branch, while another group holds the third file.
OnlyGroupFilesChangeWitness ==
  /\ pc = "commit"
  /\ cl_index = 1
  /\ Len(files_split_by_owners) = 2
  /\ Len(log) = 3
  /\ log[2].op = "rm"
  /\ log[3].op = "checkout"
  /\ ForeignTo(Directory) # {}
  /\ ~rerun

\* C20: within one run the groups have branch names that differ from one
\* another and from the original branch, so the branches a run creates are
\* all different and a group is skipped only for a branch that existed
\* before the run began, never for one the same run created.
DistinctGroupsDistinctBranches ==
  /\ \A i, j \in 1..Len(files_split_by_owners) :
       i # j => BranchName(refactor_branch, GroupAt(i).dir)
                  # BranchName(refactor_branch, GroupAt(j).dir)
  /\ \A i \in 1..Len(files_split_by_owners) :
       BranchName(refactor_branch, GroupAt(i).dir) # refactor_branch
  /\ \A i, j \in 1..Len(log) :
       (i # j /\ log[i].op = "branch" /\ log[j].op \in { "branch", "skip" }) =>
         log[i].arg # log[j].arg
  /\ \A i \in 1..Len(log) :
       log[i].op = "skip" => (rerun /\ log[i].arg \in prev.branches)

\* A first run made a branch for a/b and one for a, skipped nothing and
\* returned 0.
DistinctGroupsDistinctBranchesWitness ==
  /\ ~rerun
  /\ ~dry_run
  /\ pc = "done"
  /\ result = "0"
  /\ Keys(files_split_by_owners) = { <<"a", "b">>, <<"a">> }
  /\ Len(OpsOf(log, "branch")) = 2
  /\ Cardinality(branches) = 3

====
